---- MODULE Spec2Model ----
(***************************************************************************)
(* blinkChat: the room lifecycle and relay engine of the socket.io server. *)
(*                                                                         *)
(* The repository holds three generations of the server that the claims    *)
(* speak of:                                                               *)
(*   Spec     the passcode server with the reverse map and the disconnect  *)
(*            grace timer (src/unnamed/part_000);                          *)
(*   SpecRec  the same server with the history of its grace timers kept;   *)
(*   FairSpec the same server under fairness of the clock and the timers;  *)
(*   SpecSrv  the roomId server with the periodic sweep (src/server.js),   *)
(*            whose definitions carry the prefix Srv.                      *)
(*   SpecOld  the earlier passcode server without reverse map and grace    *)
(*            timer (src/unnamed/part_001), with the prefix Old.           *)
(* All run on the same state: the sockets, the adapter's rooms, the room   *)
(* store, the pending timers and the clock.                                *)
(*                                                                         *)
(* Node runs one handler or timer callback at a time and the in-memory     *)
(* adapter's join and leave are synchronous, so a handler is one atomic    *)
(* action.  event and outbox hold the turn that has just run; EndTurn      *)
(* closes it before the next handler starts.                               *)
(*                                                                         *)
(* Time is a bounded discrete clock.  A tick stands for an arbitrary       *)
(* stretch of wall-clock time and every delay of the source is one tick.   *)
(* A timer callback runs at or after its due time, never before, and may   *)
(* be late by any amount (the event loop gives no deadline).               *)
(***************************************************************************)
EXTENDS Integers, FiniteSets, TLC

\* ---------------------------------------------------------------- bounds
\* connections ever opened
NumSockets == 3
\* the passcode space (100000..999999 in the source)
NumPasscodes == 2
\* rooms ever created
MaxRooms == 2
\* the last instant of the clock
MaxTime == 2
\* connections ever opened under FairSpec
FairSockets == 2

\* ------------------------------------------------------ program constants
\* const expiresIn = 40 * 60 * 1000, in ticks
ExpiresIn == 1
\* setTimeout(..., 5000), in ticks
GraceDelay == 1
\* members.size >= 2
Capacity == 2

Sockets == 1..NumSockets
Passcodes == 1..NumPasscodes
RoomIdSet == 1..MaxRooms
\* an absent (falsy) field of a payload
Absent == 0
NoName == ""
\* socket.roomId when unset or null
Null == 0
\* socket.userName when unset
Undefined == "undefined"

\* The name a connection's client sends in joinRoom: odd connections belong to
\* Alice, even ones to a client that sends no name.  A later connection with
\* the same name is the same logical user on a new connection.
ClientName(s) == IF s % 2 = 1 THEN "Alice" ELSE NoName

\* the payloads of sendMessage: a non-empty string, the empty string, a number
Messages ==
  { [isString |-> TRUE, text |-> "hi"],
    [isString |-> TRUE, text |-> ""],
    [isString |-> FALSE, text |-> "42"] }

VARIABLES
  nextSocket,   \* the next connection's id (socket ids are never reused)
  connected,    \* the live connections
  rooms,        \* the room store: passcode -> [roomId, expireAt]
  roomIds,      \* roomId -> passcode
  nextRoomId,   \* the next crypto.randomBytes token (tokens never collide)
  adapter,      \* io.sockets.adapter.rooms: roomId -> set of sockets
  socketRoomId, \* socket.roomId
  userName,     \* socket.userName
  timers,       \* the pending setTimeout callbacks
  now,          \* Date.now()
  event,        \* the socket event or timer callback of this event-loop turn
  outbox,       \* the events it emitted
  expiryCount,  \* history: roomId -> broadcasts of its expiry notice
  graceHist,    \* history: pending grace timer -> what happened around it
  recording     \* whether graceHist is kept (it is under SpecRec only)

conns == << nextSocket, connected >>
registry == << rooms, roomIds, nextRoomId >>
session == << socketRoomId, userName >>
history == << expiryCount, graceHist, recording >>

vars ==
  << nextSocket, connected, rooms, roomIds, nextRoomId, adapter, socketRoomId,
     userName, timers, now, event, outbox, expiryCount, graceHist, recording >>

\* ------------------------------------------------------------ socket.io
\* io.sockets.adapter.rooms.get(r): the adapter drops a room when it empties,
\* so the empty set stands for undefined.
Members(r) == adapter[r]

IoToEveryone(r, ev) == { [to |-> x, ev |-> ev] : x \in connected }

\* io.to(r).emit(ev): one event per socket of the room
IoTo(r, ev) == { [to |-> x, ev |-> ev] : x \in Members(r) }

\* socket.to(r).emit(ev): every socket of the room except the sender
SocketTo(s, r, ev) == { [to |-> x, ev |-> ev] : x \in Members(r) \ {s} }

SocketEmitToAll(s, ev) == { [to |-> x, ev |-> ev] : x \in connected }

\* socket.emit(ev)
SocketEmit(s, ev) == { [to |-> s, ev |-> ev] }

\* socket.emit("systemMessage", text): name is the ${...} part of the text
SystemMessage(text, name) ==
  [type |-> "systemMessage", text |-> text, name |-> name]

\* socket.io takes a closing socket out of every room it is in before it emits
\* "disconnect"
LeaveAll(s) == [r \in RoomIdSet |-> adapter[r] \ {s}]

NoEvent == [op |-> "none"]
Idle == event = NoEvent

\* ------------------------------------------------------------------ Init
InitState ==
  /\ nextSocket = 1
  /\ connected = {}
  /\ rooms = << >>
  /\ roomIds = << >>
  /\ nextRoomId = 1
  /\ adapter = [r \in RoomIdSet |-> {}]
  /\ socketRoomId = [s \in Sockets |-> Null]
  /\ userName = [s \in Sockets |-> Undefined]
  /\ timers = {}
  /\ now = 0
  /\ event = NoEvent
  /\ outbox = {}
  /\ expiryCount = [r \in RoomIdSet |-> 0]
  /\ graceHist = << >>

Init == InitState /\ recording = FALSE

\* the same, with the history of the grace timers recorded
InitRec == InitState /\ recording = TRUE

\* io.on("connection"): a new socket with no roomId and no userName
Connect ==
  /\ Idle
  /\ nextSocket <= NumSockets
  /\ nextSocket' = nextSocket + 1
  /\ connected' = connected \cup {nextSocket}
  /\ UNCHANGED << registry, adapter, session, timers, now, event, outbox, history >>

\* the turn ends: the emitted events go out to their clients
EndTurn ==
  /\ event # NoEvent
  /\ event' = NoEvent
  /\ outbox' = {}
  /\ UNCHANGED << conns, registry, adapter, session, timers, now, history >>

\* time passes
Tick ==
  /\ Idle
  /\ now < MaxTime
  /\ now' = now + 1
  /\ UNCHANGED << conns, registry, adapter, session, timers, event, outbox, history >>

\* ================================================= src/unnamed/part_000
\* ------------------------------------------------------------ createRoom
GenerateAnyPasscode == Passcodes

\* generateUniquePasscode: redraws while rooms.has(passcode), so it returns
\* some passcode that is not a key of rooms (and does not return when every
\* passcode is taken).
GenerateUniquePasscode == Passcodes \ DOMAIN rooms

RoomIdsUnset(roomId, passcode) == roomIds

\* roomIds.set(roomId, passcode)
RoomIdsWith(roomId, passcode) == (roomId :> passcode) @@ roomIds

CreateRoom(s) ==
  /\ Idle
  /\ s \in connected
  /\ nextRoomId <= MaxRooms
  /\ now + ExpiresIn <= MaxTime
  /\ event' = [op |-> "createRoom", sock |-> s]
  /\ \E passcode \in GenerateUniquePasscode :
       LET roomId == nextRoomId
           expireAt == now + ExpiresIn
       IN /\ rooms' = (passcode :> [roomId |-> roomId, expireAt |-> expireAt]) @@ rooms
          /\ roomIds' = RoomIdsWith(roomId, passcode)
          /\ nextRoomId' = nextRoomId + 1
          /\ adapter' = [adapter EXCEPT ![roomId] = @ \cup {s}]
          /\ socketRoomId' = [socketRoomId EXCEPT ![s] = roomId]
          /\ outbox' = SocketEmit(s, [type |-> "roomCreated", passcode |-> passcode,
                                      roomId |-> roomId, expireAt |-> expireAt])
          /\ timers' = timers \cup
               {[kind |-> "expiry", passcode |-> passcode, roomId |-> roomId,
                 due |-> expireAt]}
  /\ UNCHANGED << conns, userName, now, history >>

RoomsKept(passcode) == rooms

\* rooms.delete(passcode)
RoomsWithout(passcode) == [p \in DOMAIN rooms \ {passcode} |-> rooms[p]]

RoomIdsKept(roomId) == roomIds

\* roomIds.delete(roomId)
RoomIdsWithout(roomId) == [r \in DOMAIN roomIds \ {roomId} |-> roomIds[r]]

SocketsStay(roomId) == adapter

\* io.socketsLeave(roomId)
SocketsLeave(roomId) == [adapter EXCEPT ![roomId] = {}]

\* the expiry callback armed by createRoom
ExpiryTimer(t) ==
  /\ Idle
  /\ t \in timers
  /\ t.kind = "expiry"
  /\ now >= t.due
  /\ event' = [op |-> "expiry", timer |-> t]
  /\ timers' = timers \ {t}
  /\ IF t.passcode \in DOMAIN rooms
       THEN /\ rooms' = RoomsWithout(t.passcode)
            /\ roomIds' = RoomIdsWithout(t.roomId)
            /\ outbox' = IoTo(t.roomId, SystemMessage("Room expired.", NoName))
            /\ expiryCount' = [expiryCount EXCEPT ![t.roomId] = @ + 1]
            /\ adapter' = SocketsLeave(t.roomId)
       ELSE /\ outbox' = {}
            /\ UNCHANGED << rooms, roomIds, expiryCount, adapter >>
  /\ UNCHANGED << conns, nextRoomId, session, now, graceHist, recording >>

\* -------------------------------------------------------------- joinRoom
NotFound == [roomId |-> Null, expireAt |-> 0]

EmitNothing(s) == {}

\* socket.emit("systemMessage", "Invalid or expired passcode.")
EmitNotFound(s) ==
  SocketEmit(s, SystemMessage("Invalid or expired passcode.", NoName))

LookupOccupied(passcode, roomId) ==
  IF passcode # Absent
    THEN IF passcode \in DOMAIN rooms /\ Members(rooms[passcode].roomId) # {}
           THEN rooms[passcode] ELSE NotFound
    ELSE IF roomId # Absent /\ roomId \in DOMAIN roomIds
                            /\ roomIds[roomId] \in DOMAIN rooms
                            /\ Members(roomId) # {}
           THEN rooms[roomIds[roomId]]
           ELSE NotFound

\* the lookup of joinRoom: by passcode when one is given, else by roomId
\* through the reverse map
Lookup(passcode, roomId) ==
  IF passcode # Absent
    THEN IF passcode \in DOMAIN rooms THEN rooms[passcode] ELSE NotFound
    ELSE IF roomId # Absent /\ roomId \in DOMAIN roomIds
                            /\ roomIds[roomId] \in DOMAIN rooms
           THEN rooms[roomIds[roomId]]
           ELSE NotFound

\* const isReconnecting = members && members.size > 0
IsReconnecting(r) == Members(r) # {}

\* const members = io.sockets.adapter.rooms.get(roomData.roomId), when the
\* lookup has found a room
MembersFound(roomData) ==
  IF roomData = NotFound THEN {} ELSE Members(roomData.roomId)

RoomIsFullForMembers(s, r) == Cardinality(Members(r)) >= Capacity

RoomIsFullOffByOne(s, r) ==
  Cardinality(Members(r)) > Capacity /\ s \notin Members(r)

\* members && members.size >= 2 && !socket.rooms.has(roomData.roomId)
RoomIsFull(s, r) == Cardinality(Members(r)) >= Capacity /\ s \notin Members(r)

EmitRoomFullToRoom(s, r) == IoTo(r, SystemMessage("Room is full.", NoName))

\* socket.emit("systemMessage", "Room is full.")
EmitRoomFull(s, r) == SocketEmit(s, SystemMessage("Room is full.", NoName))

\* roomIds.get(r), Absent for undefined
PasscodeOf(r) == IF r \in DOMAIN roomIds THEN roomIds[r] ELSE Absent

\* name || "Anonymous"
NameOrAnonymous(name) == IF name = NoName THEN "Anonymous" ELSE name

\* history: the client of a closed connection joins room r again, under the
\* same name and on a newer connection, while the closed connection's grace
\* timer is pending
RejoinedBy(s, r, name) ==
  [t \in DOMAIN graceHist |->
     IF /\ t.rId = r
        /\ s > t.sock
        /\ s \notin graceHist[t].peers
        /\ ClientName(t.sock) = ClientName(s)
        /\ t.uName = NameOrAnonymous(name)
       THEN [graceHist[t] EXCEPT !.rejoined = TRUE]
       ELSE graceHist[t]]

JoinRoom(s, passcode, roomId, name) ==
  /\ Idle
  /\ s \in connected
  /\ event' = [op |-> "joinRoom", sock |-> s, passcode |-> passcode,
               roomId |-> roomId, name |-> name,
               members |-> MembersFound(Lookup(passcode, roomId))]
  /\ LET roomData == Lookup(passcode, roomId)
         r == roomData.roomId
     IN IF roomData = NotFound
          THEN /\ outbox' = EmitNotFound(s)
               /\ UNCHANGED << adapter, session, history >>
          ELSE IF RoomIsFull(s, r)
            THEN /\ outbox' = EmitRoomFull(s, r)
                 /\ UNCHANGED << adapter, session, history >>
            ELSE /\ adapter' = [adapter EXCEPT ![r] = @ \cup {s}]
                 /\ socketRoomId' = [socketRoomId EXCEPT ![s] = r]
                 /\ userName' = [userName EXCEPT ![s] = NameOrAnonymous(name)]
                 /\ graceHist' = RejoinedBy(s, r, name)
                 /\ UNCHANGED << expiryCount, recording >>
                 /\ outbox' =
                      SocketEmit(s, [type |-> "joinSuccess", roomId |-> r,
                                     passcode |-> PasscodeOf(r),
                                     expireAt |-> roomData.expireAt])
                      \cup IF IsReconnecting(r)
                             THEN {}
                             ELSE { [to |-> x,
                                     ev |-> SystemMessage("joined the chat.",
                                                          NameOrAnonymous(name))]
                                    : x \in Members(r) \cup {s} }
  /\ UNCHANGED << conns, registry, timers, now >>

\* ------------------------------------------------------ message & typing
SendMessage(s, message) ==
  /\ Idle
  /\ s \in connected
  /\ event' = [op |-> "sendMessage", sock |-> s, message |-> message]
  /\ outbox' = IF socketRoomId[s] = Null
                 THEN {}
                 ELSE SocketTo(s, socketRoomId[s],
                               [type |-> "newMessage", message |-> message,
                                from |-> userName[s]])
  /\ UNCHANGED << conns, registry, adapter, session, timers, now, history >>

Typing(s) ==
  /\ Idle
  /\ s \in connected
  /\ event' = [op |-> "typing", sock |-> s]
  /\ outbox' = IF socketRoomId[s] = Null
                 THEN {}
                 ELSE SocketTo(s, socketRoomId[s], [type |-> "showTyping"])
  /\ UNCHANGED << conns, registry, adapter, session, timers, now, history >>

StopTyping(s) ==
  /\ Idle
  /\ s \in connected
  /\ event' = [op |-> "stopTyping", sock |-> s]
  /\ outbox' = IF socketRoomId[s] = Null
                 THEN {}
                 ELSE SocketTo(s, socketRoomId[s], [type |-> "hideTyping"])
  /\ UNCHANGED << conns, registry, adapter, session, timers, now, history >>

\* -------------------------------------------------------------- quitRoom
QuitRoom(s) ==
  /\ Idle
  /\ s \in connected
  /\ event' = [op |-> "quitRoom", sock |-> s]
  /\ IF socketRoomId[s] = Null
       THEN /\ outbox' = {}
            /\ UNCHANGED << adapter, socketRoomId >>
       ELSE /\ outbox' = SocketTo(s, socketRoomId[s],
                                  SystemMessage("left.", userName[s]))
            /\ adapter' = [adapter EXCEPT ![socketRoomId[s]] = @ \ {s}]
            /\ socketRoomId' = [socketRoomId EXCEPT ![s] = Null]
  /\ UNCHANGED << conns, registry, userName, timers, now, history >>

\* ------------------------------------------------------------ disconnect
\* socket.userName || "User"
NameOrUser(s) == IF userName[s] = Undefined THEN "User" ELSE userName[s]

\* history of a grace timer: whether the closing socket was an occupant of its
\* recorded room, who else was, and whether its user has rejoined since
GraceRecord(s) ==
  [occupant |-> s \in adapter[socketRoomId[s]],
   peers |-> adapter[socketRoomId[s]] \ {s},
   rejoined |-> FALSE]

\* The handler arms the grace timer when the socket has a roomId.  The socket
\* object is unreachable afterwards: the callback keeps rId and uName only.
Disconnect(s) ==
  /\ Idle
  /\ s \in connected
  /\ event' = [op |-> "disconnect", sock |-> s]
  /\ connected' = connected \ {s}
  /\ adapter' = LeaveAll(s)
  /\ IF socketRoomId[s] # Null
       THEN /\ now + GraceDelay <= MaxTime
            /\ LET t == [kind |-> "grace", sock |-> s, rId |-> socketRoomId[s],
                         uName |-> NameOrUser(s), due |-> now + GraceDelay]
               IN /\ timers' = timers \cup {t}
                  /\ graceHist' = IF recording
                                    THEN (t :> GraceRecord(s)) @@ graceHist
                                    ELSE graceHist
       ELSE UNCHANGED << timers, graceHist >>
  /\ socketRoomId' = [socketRoomId EXCEPT ![s] = Null]
  /\ userName' = [userName EXCEPT ![s] = Undefined]
  /\ outbox' = {}
  /\ UNCHANGED << nextSocket, registry, now, expiryCount, recording >>

\* !currentRoom || currentRoom.size < 2
TrulyGone(rId) == Cardinality(Members(rId)) < 2

NoHist == [occupant |-> FALSE, peers |-> {}, rejoined |-> FALSE]
HistOf(t) == IF t \in DOMAIN graceHist THEN graceHist[t] ELSE NoHist

\* the grace callback armed by disconnect
GraceTimer(t) ==
  /\ Idle
  /\ t \in timers
  /\ t.kind = "grace"
  /\ now >= t.due
  /\ event' = [op |-> "grace", timer |-> t, hist |-> HistOf(t)]
  /\ timers' = timers \ {t}
  /\ graceHist' = [u \in DOMAIN graceHist \ {t} |-> graceHist[u]]
  /\ outbox' = IF TrulyGone(t.rId)
                 THEN IoTo(t.rId, SystemMessage("went offline.", t.uName))
                 ELSE {}
  /\ UNCHANGED << conns, registry, adapter, session, now, expiryCount, recording >>

\* ------------------------------------------------------------------ Spec
Next ==
  \/ Connect
  \/ \E s \in Sockets : CreateRoom(s)
  \/ \E t \in timers : ExpiryTimer(t)
  \/ \E s \in Sockets, passcode \in Passcodes \cup {Absent},
        roomId \in RoomIdSet \cup {Absent} :
       JoinRoom(s, passcode, roomId, ClientName(s))
  \/ \E s \in Sockets, message \in Messages : SendMessage(s, message)
  \/ \E s \in Sockets : Typing(s)
  \/ \E s \in Sockets : StopTyping(s)
  \/ \E s \in Sockets : QuitRoom(s)
  \/ \E s \in Sockets : Disconnect(s)
  \/ \E t \in timers : GraceTimer(t)
  \/ EndTurn
  \/ Tick

Spec == Init /\ [][Next]_vars

\* The membership handlers and the timers with the grace history recorded.  The
\* relay events (sendMessage, typing, stopTyping) change no state and are left
\* out, and joinRoom is given a passcode, as the client's form does.
NextRec ==
  \/ Connect
  \/ \E s \in Sockets : CreateRoom(s)
  \/ \E t \in timers : ExpiryTimer(t)
  \/ \E s \in Sockets, passcode \in Passcodes :
       JoinRoom(s, passcode, Absent, ClientName(s))
  \/ \E s \in Sockets : QuitRoom(s)
  \/ \E s \in Sockets : Disconnect(s)
  \/ \E t \in timers : GraceTimer(t)
  \/ EndTurn
  \/ Tick

SpecRec == InitRec /\ [][NextRec]_vars


\* Time passes and a pending callback is run in the end: the event loop calls
\* a due timer on one of its next turns however many socket events arrive.
\* Tick and the timers are enabled between turns only, hence strong fairness.
Fairness ==
  /\ WF_vars(EndTurn)
  /\ SF_vars(Tick)
  /\ SF_vars(\E t \in timers : ExpiryTimer(t))

\* Next with FairSockets connections
FairNext ==
  \/ nextSocket <= FairSockets /\ Connect
  \/ \E s \in Sockets : CreateRoom(s)
  \/ \E t \in timers : ExpiryTimer(t)
  \/ \E s \in Sockets, passcode \in Passcodes \cup {Absent},
        roomId \in RoomIdSet \cup {Absent} :
       JoinRoom(s, passcode, roomId, ClientName(s))
  \/ \E s \in Sockets, message \in Messages : SendMessage(s, message)
  \/ \E s \in Sockets : Typing(s)
  \/ \E s \in Sockets : StopTyping(s)
  \/ \E s \in Sockets : QuitRoom(s)
  \/ \E s \in Sockets : Disconnect(s)
  \/ \E t \in timers : GraceTimer(t)
  \/ EndTurn
  \/ Tick

FairSpec == Init /\ [][FairNext]_vars /\ Fairness

\* ========================================================== src/server.js
\* The roomId server: rooms maps roomId -> [createdAt, expireAt], there are no
\* passcodes (roomIds stays empty) and no grace timer.
\* const expiresIn = 10 * 60 * 1000, in ticks
SrvExpiresIn == 1

SrvCreateRoom(s) ==
  /\ Idle
  /\ s \in connected
  /\ nextRoomId <= MaxRooms
  /\ now + SrvExpiresIn <= MaxTime
  /\ event' = [op |-> "createRoom", sock |-> s]
  /\ LET roomId == nextRoomId
         expireAt == now + SrvExpiresIn
     IN /\ rooms' = (roomId :> [createdAt |-> now, expireAt |-> expireAt]) @@ rooms
        /\ nextRoomId' = nextRoomId + 1
        /\ outbox' = SocketEmit(s, [type |-> "roomCreated", roomId |-> roomId,
                                    expireAt |-> expireAt])
        /\ timers' = timers \cup
             {[kind |-> "expiry", roomId |-> roomId, due |-> expireAt]}
  /\ UNCHANGED << conns, roomIds, adapter, session, now, history >>

SrvHasAlways(roomId) == TRUE

\* rooms.has(roomId)
SrvHas(roomId) == roomId \in DOMAIN rooms

\* rooms.delete(roomId)
SrvRoomsWithout(roomId) == [r \in DOMAIN rooms \ {roomId} |-> rooms[r]]

SrvExpired == SystemMessage("Room expired and has been closed.", NoName)

\* the expiry callback armed by createRoom
SrvExpiryTimer(t) ==
  /\ Idle
  /\ t \in timers
  /\ t.kind = "expiry"
  /\ now >= t.due
  /\ event' = [op |-> "expiry", timer |-> t]
  /\ timers' = timers \ {t}
  /\ IF SrvHas(t.roomId)
       THEN /\ rooms' = SrvRoomsWithout(t.roomId)
            /\ outbox' = IoTo(t.roomId, SrvExpired)
            /\ expiryCount' = [expiryCount EXCEPT ![t.roomId] = @ + 1]
            \* io.socketsLeave(roomId)
            /\ adapter' = [adapter EXCEPT ![t.roomId] = {}]
       ELSE /\ outbox' = {}
            /\ UNCHANGED << rooms, expiryCount, adapter >>
  /\ UNCHANGED << conns, roomIds, nextRoomId, session, now, graceHist, recording >>

\* now > room.expireAt
SrvOverdue(r) == now > rooms[r].expireAt

\* the setInterval callback: it may run at any time, and deletes every room
\* whose expireAt has passed
SrvSweep ==
  /\ Idle
  /\ event' = [op |-> "sweep"]
  /\ LET swept == { r \in DOMAIN rooms : SrvOverdue(r) }
     IN /\ rooms' = [r \in DOMAIN rooms \ swept |-> rooms[r]]
        /\ outbox' = UNION { IoTo(r, SrvExpired) : r \in swept }
        /\ adapter' = [r \in RoomIdSet |-> IF r \in swept THEN {} ELSE adapter[r]]
        /\ expiryCount' = [r \in RoomIdSet |->
                             IF r \in swept THEN expiryCount[r] + 1
                                            ELSE expiryCount[r]]
  /\ UNCHANGED << conns, roomIds, nextRoomId, session, timers, now, graceHist,
                  recording >>

SrvJoinRoom(s, roomId, name) ==
  /\ Idle
  /\ s \in connected
  /\ event' = [op |-> "joinRoom", sock |-> s, roomId |-> roomId, name |-> name]
  /\ IF roomId = Absent \/ ~SrvHas(roomId)
       THEN /\ outbox' = SocketEmit(s, SystemMessage("Room not found or expired.",
                                                     NoName))
            /\ UNCHANGED << adapter, session >>
       ELSE IF Cardinality(Members(roomId)) >= Capacity
         THEN /\ outbox' =
                   SocketEmit(s, SystemMessage("Room is full. Only two users allowed.",
                                               NoName))
              /\ UNCHANGED << adapter, session >>
         ELSE /\ adapter' = [adapter EXCEPT ![roomId] = @ \cup {s}]
              /\ socketRoomId' = [socketRoomId EXCEPT ![s] = roomId]
              /\ userName' = [userName EXCEPT ![s] = NameOrAnonymous(name)]
              /\ outbox' = { [to |-> x,
                              ev |-> SystemMessage("joined the room.",
                                                   NameOrAnonymous(name))]
                             : x \in Members(roomId) \cup {s} }
  /\ UNCHANGED << conns, registry, timers, now, history >>

\* !(!message || typeof message !== "string")
SrvValidMessage(message) == message.isString /\ message.text # ""

\* the handler relays under socket.roomId and ignores the roomId of the payload
SrvSendMessage(s, message) ==
  /\ Idle
  /\ s \in connected
  /\ event' = [op |-> "sendMessage", sock |-> s, message |-> message]
  /\ LET room == socketRoomId[s]
     IN outbox' =
          IF room = Null \/ ~SrvHas(room)
            THEN SocketEmit(s, SystemMessage("Invalid or missing room.", NoName))
            ELSE IF ~SrvValidMessage(message)
              THEN SocketEmit(s, SystemMessage("Empty or invalid message.", NoName))
              ELSE SocketTo(s, room, [type |-> "newMessage", message |-> message,
                                      from |-> NameOrUser(s)])
  /\ UNCHANGED << conns, registry, adapter, session, timers, now, history >>

\* typing and stopTyping take the room from the client
SrvTyping(s, roomId) ==
  /\ Idle
  /\ s \in connected
  /\ event' = [op |-> "typing", sock |-> s, roomId |-> roomId]
  /\ outbox' = IF roomId = Absent
                 THEN {}
                 ELSE SocketTo(s, roomId, [type |-> "showTyping", from |-> s])
  /\ UNCHANGED << conns, registry, adapter, session, timers, now, history >>

SrvStopTyping(s, roomId) ==
  /\ Idle
  /\ s \in connected
  /\ event' = [op |-> "stopTyping", sock |-> s, roomId |-> roomId]
  /\ outbox' = IF roomId = Absent
                 THEN {}
                 ELSE SocketTo(s, roomId, [type |-> "hideTyping", from |-> s])
  /\ UNCHANGED << conns, registry, adapter, session, timers, now, history >>

\* quitRoom takes the room from the client too; socket.roomId stays as it was
SrvQuitRoom(s, roomId) ==
  /\ Idle
  /\ s \in connected
  /\ event' = [op |-> "quitRoom", sock |-> s, roomId |-> roomId]
  /\ adapter' = [adapter EXCEPT ![roomId] = @ \ {s}]
  /\ outbox' = { [to |-> x, ev |-> SystemMessage("left the room.", userName[s])]
                 : x \in adapter[roomId] \ {s} }
  /\ rooms' = IF adapter[roomId] \ {s} = {} THEN SrvRoomsWithout(roomId) ELSE rooms
  /\ UNCHANGED << conns, roomIds, nextRoomId, session, timers, now, history >>

\* socket.userName || "A user"
SrvNameOrAUser(s) == IF userName[s] = Undefined THEN "A user" ELSE userName[s]

SrvDisconnect(s) ==
  /\ Idle
  /\ s \in connected
  /\ event' = [op |-> "disconnect", sock |-> s]
  /\ connected' = connected \ {s}
  /\ adapter' = LeaveAll(s)
  /\ LET roomId == socketRoomId[s]
     IN IF roomId # Null
          THEN /\ outbox' = { [to |-> x,
                               ev |-> SystemMessage("disconnected.", SrvNameOrAUser(s))]
                              : x \in adapter[roomId] \ {s} }
               /\ rooms' = IF adapter[roomId] \ {s} = {}
                             THEN SrvRoomsWithout(roomId)
                             ELSE rooms
          ELSE /\ outbox' = {}
               /\ UNCHANGED rooms
  /\ socketRoomId' = [socketRoomId EXCEPT ![s] = Null]
  /\ userName' = [userName EXCEPT ![s] = Undefined]
  /\ UNCHANGED << nextSocket, roomIds, nextRoomId, timers, now, history >>

SrvNext ==
  \/ Connect
  \/ \E s \in Sockets : SrvCreateRoom(s)
  \/ \E t \in timers : SrvExpiryTimer(t)
  \/ SrvSweep
  \/ \E s \in Sockets, roomId \in RoomIdSet \cup {Absent} :
       SrvJoinRoom(s, roomId, ClientName(s))
  \/ \E s \in Sockets, message \in Messages : SrvSendMessage(s, message)
  \/ \E s \in Sockets, roomId \in RoomIdSet \cup {Absent} : SrvTyping(s, roomId)
  \/ \E s \in Sockets, roomId \in RoomIdSet \cup {Absent} : SrvStopTyping(s, roomId)
  \/ \E s \in Sockets, roomId \in RoomIdSet : SrvQuitRoom(s, roomId)
  \/ \E s \in Sockets : SrvDisconnect(s)
  \/ EndTurn
  \/ Tick

SpecSrv == Init /\ [][SrvNext]_vars


\* ================================================= src/unnamed/part_001
\* The earlier passcode server: no reverse map (roomIds stays empty), no grace
\* timer; its definitions carry the prefix Old.
\* const expiresIn = 10 * 60 * 1000, in ticks
OldExpiresIn == 1

\* generateUniquePasscode
OldGenerateUniquePasscode == Passcodes \ DOMAIN rooms

OldCreateRoom(s) ==
  /\ Idle
  /\ s \in connected
  /\ nextRoomId <= MaxRooms
  /\ now + OldExpiresIn <= MaxTime
  /\ event' = [op |-> "createRoom", sock |-> s]
  /\ \E passcode \in OldGenerateUniquePasscode :
       LET roomId == nextRoomId
           expireAt == now + OldExpiresIn
       IN /\ rooms' = (passcode :> [roomId |-> roomId, expireAt |-> expireAt]) @@ rooms
          /\ nextRoomId' = nextRoomId + 1
          /\ adapter' = [adapter EXCEPT ![roomId] = @ \cup {s}]
          /\ socketRoomId' = [socketRoomId EXCEPT ![s] = roomId]
          /\ outbox' = SocketEmit(s, [type |-> "roomCreated", passcode |-> passcode,
                                      roomId |-> roomId, expireAt |-> expireAt])
          /\ timers' = timers \cup
               {[kind |-> "expiry", passcode |-> passcode, roomId |-> roomId,
                 due |-> expireAt]}
  /\ UNCHANGED << conns, roomIds, userName, now, history >>

\* the expiry callback armed by createRoom
OldExpiryTimer(t) ==
  /\ Idle
  /\ t \in timers
  /\ t.kind = "expiry"
  /\ now >= t.due
  /\ event' = [op |-> "expiry", timer |-> t]
  /\ timers' = timers \ {t}
  /\ IF t.passcode \in DOMAIN rooms
       THEN /\ rooms' = [p \in DOMAIN rooms \ {t.passcode} |-> rooms[p]]
            /\ outbox' = IoTo(t.roomId, SystemMessage("Room expired.", NoName))
            /\ expiryCount' = [expiryCount EXCEPT ![t.roomId] = @ + 1]
            \* io.socketsLeave(roomId)
            /\ adapter' = [adapter EXCEPT ![t.roomId] = {}]
       ELSE /\ outbox' = {}
            /\ UNCHANGED << rooms, expiryCount, adapter >>
  /\ UNCHANGED << conns, roomIds, nextRoomId, session, now, graceHist, recording >>

OldJoinRoom(s, passcode, name) ==
  /\ Idle
  /\ s \in connected
  /\ event' = [op |-> "joinRoom", sock |-> s, passcode |-> passcode, name |-> name]
  /\ IF passcode \notin DOMAIN rooms
       THEN /\ outbox' = SocketEmit(s, SystemMessage("Invalid or expired passcode.",
                                                     NoName))
            /\ UNCHANGED << adapter, session >>
       ELSE LET roomData == rooms[passcode]
                r == roomData.roomId
            IN IF Cardinality(Members(r)) >= Capacity
                 THEN /\ outbox' = SocketEmit(s, SystemMessage("Room is full.", NoName))
                      /\ UNCHANGED << adapter, session >>
                 ELSE /\ adapter' = [adapter EXCEPT ![r] = @ \cup {s}]
                      /\ socketRoomId' = [socketRoomId EXCEPT ![s] = r]
                      /\ userName' = [userName EXCEPT ![s] = NameOrAnonymous(name)]
                      /\ outbox' =
                           { [to |-> x,
                              ev |-> SystemMessage("joined.", NameOrAnonymous(name))]
                             : x \in Members(r) \cup {s} }
                           \cup SocketEmit(s, [type |-> "joinSuccess", roomId |-> r,
                                               expireAt |-> roomData.expireAt])
  /\ UNCHANGED << conns, registry, timers, now, history >>

OldSendMessage(s, message) ==
  /\ Idle
  /\ s \in connected
  /\ event' = [op |-> "sendMessage", sock |-> s, message |-> message]
  /\ outbox' = IF socketRoomId[s] = Null
                 THEN {}
                 ELSE SocketTo(s, socketRoomId[s],
                               [type |-> "newMessage", message |-> message,
                                from |-> userName[s]])
  /\ UNCHANGED << conns, registry, adapter, session, timers, now, history >>

OldTyping(s) ==
  /\ Idle
  /\ s \in connected
  /\ event' = [op |-> "typing", sock |-> s]
  /\ outbox' = IF socketRoomId[s] = Null
                 THEN {}
                 ELSE SocketTo(s, socketRoomId[s], [type |-> "showTyping"])
  /\ UNCHANGED << conns, registry, adapter, session, timers, now, history >>

OldStopTyping(s) ==
  /\ Idle
  /\ s \in connected
  /\ event' = [op |-> "stopTyping", sock |-> s]
  /\ outbox' = IF socketRoomId[s] = Null
                 THEN {}
                 ELSE SocketTo(s, socketRoomId[s], [type |-> "hideTyping"])
  /\ UNCHANGED << conns, registry, adapter, session, timers, now, history >>

\* the socket leaves the room and the others are told; socket.roomId stays as
\* it was
OldQuitRoom(s) ==
  /\ Idle
  /\ s \in connected
  /\ event' = [op |-> "quitRoom", sock |-> s]
  /\ IF socketRoomId[s] = Null
       THEN /\ outbox' = {}
            /\ UNCHANGED adapter
       ELSE /\ adapter' = [adapter EXCEPT ![socketRoomId[s]] = @ \ {s}]
            /\ outbox' = { [to |-> x, ev |-> SystemMessage("left.", userName[s])]
                           : x \in adapter[socketRoomId[s]] \ {s} }
  /\ UNCHANGED << conns, registry, session, timers, now, history >>

OldDisconnect(s) ==
  /\ Idle
  /\ s \in connected
  /\ event' = [op |-> "disconnect", sock |-> s]
  /\ connected' = connected \ {s}
  /\ adapter' = LeaveAll(s)
  /\ outbox' = IF socketRoomId[s] = Null
                 THEN {}
                 ELSE { [to |-> x, ev |-> SystemMessage("disconnected.", NameOrUser(s))]
                        : x \in adapter[socketRoomId[s]] \ {s} }
  /\ socketRoomId' = [socketRoomId EXCEPT ![s] = Null]
  /\ userName' = [userName EXCEPT ![s] = Undefined]
  /\ UNCHANGED << nextSocket, registry, timers, now, history >>

OldNext ==
  \/ Connect
  \/ \E s \in Sockets : OldCreateRoom(s)
  \/ \E t \in timers : OldExpiryTimer(t)
  \/ \E s \in Sockets, passcode \in Passcodes \cup {Absent} :
       OldJoinRoom(s, passcode, ClientName(s))
  \/ \E s \in Sockets, message \in Messages : OldSendMessage(s, message)
  \/ \E s \in Sockets : OldTyping(s)
  \/ \E s \in Sockets : OldStopTyping(s)
  \/ \E s \in Sockets : OldQuitRoom(s)
  \/ \E s \in Sockets : OldDisconnect(s)
  \/ EndTurn
  \/ Tick

SpecOld == Init /\ [][OldNext]_vars

\* ================================================================ claims
\* the step that handles the socket event or timer callback op
Handles(op) == event = NoEvent /\ event'.op = op

RoomIdsInUse == { rooms[p].roomId : p \in DOMAIN rooms }
Expired(r) == expiryCount[r] > 0
NotFoundTo(s) ==
  SocketEmit(s, SystemMessage("Invalid or expired passcode.", NoName))
RoomFullTo(s) == SocketEmit(s, SystemMessage("Room is full.", NoName))

\* C1: in every reachable state the occupant set of every room holds at most
\* two connections, whatever the interleaving of handlers and timers.
C1_AtMostTwoOccupants ==
  \A r \in RoomIdSet : Cardinality(adapter[r]) <= Capacity

\* A third connection has just asked to join a room that holds two others, and
\* it was turned away.
C1_ThirdJoinerRefused ==
  /\ event.op = "joinRoom"
  /\ outbox = RoomFullTo(event.sock)
  /\ \E r \in RoomIdSet :
       /\ Lookup(event.passcode, event.roomId).roomId = r
       /\ Cardinality(adapter[r]) = Capacity
       /\ event.sock \notin adapter[r]

\* C2: a createRoom returns a passcode that no live room has at that instant;
\* it adds one record under a fresh roomId and leaves every live room's record
\* as it was, so no two live passcodes name the same room.
C2_PasscodeUniqueAmongLive ==
  [][Handles("createRoom") =>
       \E p \in Passcodes :
         /\ p \notin DOMAIN rooms
         /\ DOMAIN rooms' = DOMAIN rooms \cup {p}
         /\ \A q \in DOMAIN rooms :
              rooms'[q] = rooms[q] /\ rooms'[q].roomId # rooms'[p].roomId
         /\ \E e \in outbox' :
              /\ e.to = event'.sock
              /\ e.ev.type = "roomCreated"
              /\ e.ev.passcode = p]_vars

\* A room has just been created while another room was live.
C2_CreatedBesideLiveRoom ==
  event.op = "createRoom" /\ Cardinality(DOMAIN rooms) = 2

\* C3: the expiry callback removes the passcode entry and the roomId entry of
\* its room; an expired roomId never comes back into either map, a passcode
\* comes back only by a createRoom that binds it to a new roomId, and a
\* joinRoom whose key is in neither map is answered NotFound.
C3_ExpiryRemovesBothMappings ==
  [][/\ Handles("expiry") /\ event'.timer.passcode \in DOMAIN rooms =>
          /\ event'.timer.passcode \notin DOMAIN rooms'
          /\ event'.timer.roomId \notin DOMAIN roomIds'
          /\ expiryCount'[event'.timer.roomId] > 0
     /\ \A r \in RoomIdSet :
          Expired(r) => r \notin DOMAIN roomIds' /\ r \notin RoomIdsInUse'
     /\ \A p \in Passcodes :
          p \notin DOMAIN rooms /\ p \in DOMAIN rooms' =>
            Handles("createRoom") /\ rooms'[p].roomId = nextRoomId
     /\ Handles("joinRoom") =>
          LET byPasscode == event'.passcode # Absent
              gone == IF byPasscode
                        THEN event'.passcode \notin DOMAIN rooms
                        ELSE event'.roomId \notin DOMAIN roomIds
          IN gone => outbox' = NotFoundTo(event'.sock)]_vars

\* A joinRoom by the roomId of an expired room has just been answered NotFound.
C3_JoinAfterExpiryNotFound ==
  /\ event.op = "joinRoom"
  /\ event.passcode = Absent
  /\ event.roomId # Absent
  /\ Expired(event.roomId)
  /\ outbox = NotFoundTo(event.sock)


\* C4: every room in the store is deleted in the end, given that time passes
\* and pending callbacks are run; a room leaves the store only through its own
\* expiry callback, which runs at or after the room's expireAt and removes it;
\* and no step changes the record, hence the expireAt, of a room that stays.
C4_EveryRoomDeleted ==
  /\ \A r \in RoomIdSet : (r \in RoomIdsInUse) ~> (r \notin RoomIdsInUse)
  /\ [][/\ \A p \in DOMAIN rooms \cap DOMAIN rooms' : rooms'[p] = rooms[p]
        /\ \A p \in DOMAIN rooms \ DOMAIN rooms' :
             /\ Handles("expiry")
             /\ event'.timer.passcode = p
             /\ event'.timer.roomId = rooms[p].roomId
             /\ now >= rooms[p].expireAt
        /\ Handles("expiry") => event'.timer.roomId \notin RoomIdsInUse']_vars

\* A room with two occupants has just been deleted by its expiry callback,
\* which ran late.
C4_RoomDeletedUnderUse ==
  /\ event.op = "expiry"
  /\ event.timer.roomId \notin RoomIdsInUse
  /\ now > event.timer.due
  /\ Cardinality({ e.to : e \in outbox }) = Capacity

\* C5: a room's expiry notice is broadcast at most once; an expiry callback
\* that finds its room gone, and a sweep that finds no room overdue, emit
\* nothing and change nothing but the timer list; and a notice is broadcast
\* only for a room that the same step removes from the store.
C5_ExpiryIdempotent ==
  /\ [](\A r \in RoomIdSet : expiryCount[r] <= 1)
  /\ [][/\ Handles("expiry") /\ event'.timer.roomId \notin DOMAIN rooms =>
             /\ outbox' = {}
             /\ UNCHANGED << conns, registry, adapter, session, expiryCount >>
        /\ Handles("sweep") /\ (\A r \in DOMAIN rooms : now <= rooms[r].expireAt) =>
             /\ outbox' = {}
             /\ UNCHANGED << conns, registry, adapter, session, timers, expiryCount >>
        /\ \A r \in RoomIdSet :
             expiryCount'[r] # expiryCount[r] =>
               r \in DOMAIN rooms /\ r \notin DOMAIN rooms']_vars

\* The expiry callback of a room has just run after the sweep had removed the
\* room and broadcast its notice: it emitted nothing.
C5_TimerAfterSweep ==
  /\ event.op = "expiry"
  /\ event.timer.roomId \notin DOMAIN rooms
  /\ expiryCount[event.timer.roomId] = 1
  /\ now > event.timer.due
  /\ outbox = {}

\* C6: when a connection joins, by its passcode and before its expireAt, a
\* room whose only occupant is another connection, the joiner is sent
\* joinSuccess with the room's roomId and the occupant is sent the
\* systemMessage that the joiner joined.
C6_SecondJoinerAnnounced ==
  [][\A r \in RoomIdSet :
       /\ Handles("joinRoom")
       /\ event'.passcode \in DOMAIN rooms
       /\ rooms[event'.passcode].roomId = r
       /\ now < rooms[event'.passcode].expireAt
       /\ Cardinality(adapter[r]) = 1
       /\ event'.sock \notin adapter[r]
       => /\ [to |-> event'.sock,
              ev |-> [type |-> "joinSuccess", roomId |-> r,
                      passcode |-> event'.passcode,
                      expireAt |-> rooms[event'.passcode].expireAt]] \in outbox'
          /\ \A x \in adapter[r] :
               [to |-> x,
                ev |-> SystemMessage("joined the chat.",
                                     NameOrAnonymous(event'.name))] \in outbox']_vars

\* C7: a joinRoom by a connection that is not an occupant, on a room that holds
\* two occupants, emits "Room is full." to that connection and nothing else,
\* and changes neither the occupant sets, nor the registry, nor any socket's
\* roomId or userName.
C7_FullRoomRejectsOutsider ==
  [][\A r \in RoomIdSet :
       /\ Handles("joinRoom")
       /\ Lookup(event'.passcode, event'.roomId).roomId = r
       /\ Cardinality(adapter[r]) = Capacity
       /\ event'.sock \notin adapter[r]
       => /\ outbox' = RoomFullTo(event'.sock)
          /\ UNCHANGED << adapter, registry, session >>]_vars

\* A connection that sits in a room of its own has just been turned away from
\* a room that holds two others.
C7_OutsiderKeepsOwnRoom ==
  /\ event.op = "joinRoom"
  /\ outbox = RoomFullTo(event.sock)
  /\ \E r \in RoomIdSet :
       /\ Lookup(event.passcode, event.roomId).roomId = r
       /\ Cardinality(adapter[r]) = Capacity
       /\ socketRoomId[event.sock] \notin {Null, r}
       /\ event.sock \in adapter[socketRoomId[event.sock]]

RelayOps == {"sendMessage", "typing", "stopTyping"}
RelayTypes == {"newMessage", "showTyping", "hideTyping"}

\* C8: every newMessage, showTyping and hideTyping that a sendMessage, typing
\* or stopTyping of socket s causes goes to an occupant of socket.roomId other
\* than s, and s is an occupant of that room itself.
C8_RelayOnlyToRoomPeers ==
  [][event = NoEvent /\ event'.op \in RelayOps =>
       \A e \in outbox' :
         e.ev.type \in RelayTypes =>
           LET s == event'.sock
               r == socketRoomId[s]
           IN /\ r # Null
              /\ s \in adapter[r]
              /\ e.to \in adapter[r] \ {s}]_vars

\* the "went offline." notices among the emitted events
OfflineNotices(box) ==
  { e \in box : e.ev.type = "systemMessage" /\ e.ev.text = "went offline." }

\* C9: when the grace timer of X fires, X having left a room of two by
\* disconnecting and X's client having joined that room again under the same
\* name on a new connection in between, no "went offline." notice goes to the
\* other occupant Y.
C9_NoOfflineAfterRejoin ==
  [][/\ Handles("grace")
     /\ event'.hist.occupant
     /\ Cardinality(event'.hist.peers) = 1
     /\ event'.hist.rejoined
     => \A y \in event'.hist.peers :
          \A e \in OfflineNotices(outbox') : e.to # y]_vars

\* no other connection of x's client was ever opened
NeverReconnected(x) ==
  \A s \in 1..(nextSocket - 1) : s # x => ClientName(s) # ClientName(x)

\* C10: when the grace timer of an occupant X fires and X's client has opened
\* no other connection, every connection that was in the room with X and still
\* is receives the "went offline." notice for X; the disconnect handler itself
\* emits nothing.
C10_OfflineNoticeWhenGone ==
  [][/\ /\ Handles("grace")
        /\ event'.hist.occupant
        /\ NeverReconnected(event'.timer.sock)
        => \A y \in event'.hist.peers \cap adapter[event'.timer.rId] :
             [to |-> y,
              ev |-> SystemMessage("went offline.", event'.timer.uName)] \in outbox'
     /\ Handles("disconnect") => outbox' = {}]_vars

\* C11: when the expiry callback finds its room in the registry, each occupant
\* is sent the expiry systemMessage (once: nothing else is emitted, and a room's
\* notice is never broadcast again) and the occupant set is empty afterwards;
\* the occupant set of an expired room stays empty, and a sendMessage, typing
\* or stopTyping of a connection whose roomId still names it reaches no one.
C11_ExpiryEmptiesRoom ==
  /\ [](\A r \in RoomIdSet : Expired(r) => adapter[r] = {} /\ expiryCount[r] = 1)
  /\ [][/\ Handles("expiry") /\ event'.timer.passcode \in DOMAIN rooms =>
             /\ outbox' = { [to |-> x, ev |-> SystemMessage("Room expired.", NoName)]
                            : x \in adapter[event'.timer.roomId] }
             /\ adapter'[event'.timer.roomId] = {}
        /\ event = NoEvent /\ event'.op \in RelayOps
             /\ socketRoomId[event'.sock] # Null
             /\ Expired(socketRoomId[event'.sock]) => outbox' = {}]_vars

\* A former occupant of an expired room, whose other former occupant is still
\* connected, has just sent a message: nothing was delivered.
C11_MessageAfterExpiry ==
  /\ event.op = "sendMessage"
  /\ outbox = {}
  /\ \E r \in RoomIdSet, y \in connected :
       /\ Expired(r)
       /\ y # event.sock
       /\ socketRoomId[event.sock] = r
       /\ socketRoomId[y] = r

\* C12: the roomId of every connection is unset or names a room that is in the
\* registry.
C12_RoomIdNamesLiveRoom ==
  \A s \in connected : socketRoomId[s] = Null \/ socketRoomId[s] \in RoomIdsInUse

\* C13: every connection is in the occupant set of at most one room, and that
\* room is the one its roomId names.
C13_AtMostOneRoom ==
  \A s \in Sockets :
    /\ Cardinality({ r \in RoomIdSet : s \in adapter[r] }) <= 1
    /\ \A r \in RoomIdSet : s \in adapter[r] => socketRoomId[s] = r

\* C14: a sendMessage of a connection that is in its room, with a payload that
\* is empty or not a string, emits no newMessage and emits a systemMessage to
\* the sender and to no one else.
C14_InvalidPayloadRejected ==
  [][/\ Handles("sendMessage")
     /\ socketRoomId[event'.sock] # Null
     /\ event'.sock \in adapter[socketRoomId[event'.sock]]
     /\ ~SrvValidMessage(event'.message)
     => /\ \A e \in outbox' : e.ev.type = "systemMessage" /\ e.to = event'.sock
        /\ outbox' # {}]_vars

\* C15: in every state, passcode p maps to a record with roomId r exactly when
\* r maps back to p.
C15_MapsAgree ==
  \A p \in Passcodes, r \in RoomIdSet :
    (p \in DOMAIN rooms /\ rooms[p].roomId = r)
      <=> (r \in DOMAIN roomIds /\ roomIds[r] = p)

\* The expiry callback has just removed one of two rooms: one entry is left in
\* each map.
C15_OneOfTwoRoomsExpired ==
  /\ event.op = "expiry"
  /\ Expired(event.timer.roomId)
  /\ Cardinality(DOMAIN rooms) = 1
  /\ Cardinality(DOMAIN roomIds) = 1

\* C16: a createRoom of connection s puts the record of a fresh roomId and its
\* expireAt under a passcode (and the roomId under the reverse map), leaves s
\* as the only occupant of that room with its roomId naming it, and emits
\* roomCreated with that passcode, roomId and expireAt to s and nothing else.
C16_CreateRoomPostconditions ==
  [][Handles("createRoom") =>
       \E p \in Passcodes :
         LET s == event'.sock
             r == nextRoomId
             expireAt == now + ExpiresIn
         IN /\ p \in DOMAIN rooms'
            /\ rooms'[p] = [roomId |-> r, expireAt |-> expireAt]
            /\ r \in DOMAIN roomIds' /\ roomIds'[r] = p
            /\ adapter'[r] = {s}
            /\ socketRoomId'[s] = r
            /\ outbox' = { [to |-> s,
                            ev |-> [type |-> "roomCreated", passcode |-> p,
                                    roomId |-> r, expireAt |-> expireAt]] }]_vars

\* A connection that was in another room with a peer has just created a room:
\* it is alone in the new one, and roomCreated went to it only.
C16_CreatorAloneInNewRoom ==
  /\ event.op = "createRoom"
  /\ adapter[socketRoomId[event.sock]] = {event.sock}
  /\ { e.to : e \in outbox } = {event.sock}
  /\ \E r \in RoomIdSet : event.sock \in adapter[r] /\ Cardinality(adapter[r]) = 2

\* the key of a joinRoom names no room of the registry: the passcode when one
\* is given, else the roomId
KeyNamesNoRoom(passcode, roomId) ==
  IF passcode # Absent
    THEN passcode \notin DOMAIN rooms
    ELSE roomId = Absent \/ roomId \notin RoomIdsInUse

\* C17: a joinRoom whose key names no room of the registry emits the NotFound
\* systemMessage to the joiner and nothing else, whatever the occupancy of any
\* room, and changes neither the registry, nor the occupant sets, nor any
\* socket's roomId or userName.
C17_UnknownKeyNotFound ==
  [][Handles("joinRoom") /\ KeyNamesNoRoom(event'.passcode, event'.roomId) =>
       /\ outbox' = NotFoundTo(event'.sock)
       /\ UNCHANGED << registry, adapter, session >>]_vars

\* A connection that sits in a room has just asked to join by a passcode that
\* was never given out, and was answered NotFound.
C17_NeverCreatedPasscode ==
  /\ event.op = "joinRoom"
  /\ event.passcode # Absent
  /\ event.passcode \notin DOMAIN rooms
  /\ \A r \in RoomIdSet : ~Expired(r)
  /\ socketRoomId[event.sock] # Null
  /\ outbox = NotFoundTo(event.sock)

\* C18: a joinRoom on a room that holds two occupants is answered "Room is
\* full." and changes no occupant set, unless the joiner is one of the two:
\* then it is sent joinSuccess for that room and the occupant set stays as it
\* was, with two occupants.
C18_MemberRejoinsFullRoom ==
  [][\A r \in RoomIdSet :
       /\ Handles("joinRoom")
       /\ Lookup(event'.passcode, event'.roomId).roomId = r
       /\ Cardinality(adapter[r]) = Capacity
       => IF event'.sock \in adapter[r]
            THEN /\ \E e \in outbox' :
                      /\ e.to = event'.sock
                      /\ e.ev.type = "joinSuccess"
                      /\ e.ev.roomId = r
                 /\ adapter'[r] = adapter[r]
                 /\ Cardinality(adapter'[r]) = Capacity
                 /\ socketRoomId'[event'.sock] = r
            ELSE /\ outbox' = RoomFullTo(event'.sock)
                 /\ UNCHANGED adapter]_vars

\* One of the two occupants of a room has just joined it again and was sent
\* joinSuccess; the room still holds the same two.
C18_OccupantJoinedAgain ==
  /\ event.op = "joinRoom"
  /\ event.sock \in event.members
  /\ Cardinality(event.members) = Capacity
  /\ \E r \in RoomIdSet :
       /\ adapter[r] = event.members
       /\ [to |-> event.sock,
           ev |-> [type |-> "joinSuccess", roomId |-> r,
                   passcode |-> PasscodeOf(r),
                   expireAt |-> rooms[PasscodeOf(r)].expireAt]] \in outbox

\* C19: when the grace timer of a connection fires after the room it names has
\* been deleted by the expiry callback, nothing is delivered to any connection
\* and neither the registry, nor any occupant set, nor any socket's roomId or
\* userName, nor the connections change.
C19_GraceTimerAfterExpiry ==
  [][Handles("grace") /\ Expired(event'.timer.rId) =>
       /\ outbox' = {}
       /\ UNCHANGED << conns, registry, adapter, session, expiryCount >>]_vars

\* The grace timer of a connection has just fired after its room had expired,
\* while a former occupant of that room was still connected: nothing was sent.
C19_StaleGraceTimerSilent ==
  /\ event.op = "grace"
  /\ Expired(event.timer.rId)
  /\ outbox = {}
  /\ \E y \in connected : socketRoomId[y] = event.timer.rId

\* C20: a quitRoom of a connection whose roomId is set emits the "left"
\* systemMessage to the other occupants of that room and to no one else, takes
\* the connection out of the occupant set and unsets its roomId; a quitRoom of
\* a connection whose roomId is unset emits and changes nothing; and a
\* sendMessage, typing or stopTyping of a connection that is in no room under
\* its roomId reaches no one.
C20_QuitRoomLeaves ==
  [][/\ Handles("quitRoom") =>
          LET s == event'.sock
              r == socketRoomId[s]
          IN IF r = Null
               THEN /\ outbox' = {}
                    /\ UNCHANGED << conns, registry, adapter, session, timers >>
               ELSE /\ outbox' = { [to |-> x,
                                    ev |-> SystemMessage("left.", userName[s])]
                                   : x \in adapter[r] \ {s} }
                    /\ adapter'[r] = adapter[r] \ {s}
                    /\ socketRoomId'[s] = Null
     /\ event = NoEvent /\ event'.op \in RelayOps =>
          LET s == event'.sock
              r == socketRoomId[s]
          IN r = Null \/ s \notin adapter[r] => outbox' = {}]_vars


\* the passcode of the room that the key of a joinRoom names: the passcode
\* itself when one is given, else the passcode of the room with that roomId
KeyPasscode(passcode, roomId) ==
  IF passcode # Absent
    THEN passcode
    ELSE CHOOSE p \in DOMAIN rooms : rooms[p].roomId = roomId

\* C21: quitRoom and disconnect leave the registry as it is; the only step
\* that removes or alters an entry of rooms or of roomIds is the expiry
\* callback; and a joinRoom whose key (passcode or roomId) names a room of the
\* registry that has no occupant succeeds: the joiner becomes an occupant and
\* receives joinSuccess with the roomId and the expireAt the room was
\* created with.
C21_OnlyExpiryDeletes ==
  [][/\ Handles("quitRoom") \/ Handles("disconnect") => UNCHANGED registry
     /\ (\E p \in DOMAIN rooms :
           p \notin DOMAIN rooms' \/ rooms'[p] # rooms[p]) => Handles("expiry")
     /\ (\E r \in DOMAIN roomIds :
           r \notin DOMAIN roomIds' \/ roomIds'[r] # roomIds[r])
          => Handles("expiry")
     /\ Handles("joinRoom")
          /\ ~KeyNamesNoRoom(event'.passcode, event'.roomId) =>
          LET s == event'.sock
              p == KeyPasscode(event'.passcode, event'.roomId)
              r == rooms[p].roomId
          IN adapter[r] = {} =>
               /\ adapter'[r] = {s}
               /\ socketRoomId'[s] = r
               /\ rooms' = rooms
               /\ \E m \in outbox' :
                    /\ m.to = s
                    /\ m.ev.type = "joinSuccess"
                    /\ m.ev.roomId = r
                    /\ m.ev.expireAt = rooms[p].expireAt]_vars

\* A room was left without occupant when its creator's connection closed (the
\* grace timer of that connection is still pending), and another connection
\* has just joined it by roomId and got the room's expireAt back.
C21_EmptyRoomJoined ==
  /\ event.op = "joinRoom"
  /\ event.passcode = Absent
  /\ event.members = {}
  /\ \E p \in DOMAIN rooms :
       /\ rooms[p].roomId = event.roomId
       /\ adapter[event.roomId] = {event.sock}
       /\ \E t \in timers :
            t.kind = "grace" /\ t.rId = event.roomId /\ t.sock # event.sock
       /\ \E m \in outbox :
            /\ m.to = event.sock
            /\ m.ev.type = "joinSuccess"
            /\ m.ev.expireAt = rooms[p].expireAt
====
